---- MODULE Spec2Model ----
(***************************************************************************)
(* Model of the two battery discharge loggers of Footleg/power-monitoring: *)
(*   "2S"   - li-battery_2S_logger.py (averaging window, temperature)      *)
(*   "cell" - li-cell_logger.py       (one record per raw sample)          *)
(* Python floats are modelled as exact rationals [n, d] in lowest terms.   *)
(* The monotonic clock is kept in seconds, monotonic_ns() / 1000000000, as *)
(* a rational; time passes in the sleep of the loop body and in the sensor *)
(* readings of an iteration (the 0.2 s naps of read_temp are counted with  *)
(* the latter).                                                            *)
(***************************************************************************)
EXTENDS Integers, Sequences, FiniteSets, TLC

(***************************************************************************)
(* Bounds of the model.                                                    *)
(***************************************************************************)
\* Raw samples averaged into one record.  The 2S logger sets 8 (line 73);
\* the model runs the same code with a shorter window.
readingsToAverage == 2
\* Cap on the number of raw samples taken in one run.
MaxSamples == 4

\* Seconds between log lines (both loggers).
logInterval == 15

Variants == {"2S", "cell"}

(***************************************************************************)
(* Exact rational arithmetic standing in for Python float arithmetic.      *)
(***************************************************************************)
RECURSIVE GCD(_, _)
GCD(a, b) == IF b = 0 THEN a ELSE GCD(b, a % b)

Abs(x) == IF x < 0 THEN -x ELSE x

\* Python's None, and the value of a name that is not bound yet.
None == [n |-> 0, d |-> 0]

\* n/d in lowest terms with a positive denominator; no number when d = 0.
Rat(n, d) ==
    IF d = 0 THEN None
    ELSE LET s == IF d < 0 THEN -1 ELSE 1
             g == GCD(Abs(n), Abs(d))
         IN  [n |-> (s * n) \div g, d |-> (s * d) \div g]

Zero == [n |-> 0, d |-> 1]

RAdd(a, b) == Rat(a.n * b.d + b.n * a.d, a.d * b.d)
RSub(a, b) == Rat(a.n * b.d - b.n * a.d, a.d * b.d)
RMul(a, b) == Rat(a.n * b.n, a.d * b.d)
RDiv(a, b) == Rat(a.n * b.d, a.d * b.n)
RInt(k) == [n |-> k, d |-> 1]
RGt(a, b) == a.n * b.d > b.n * a.d
RLe(a, b) == a.n * b.d <= b.n * a.d

\* The format specification ".2f": the nearest multiple of 1/100, ties to even.
Fmt2(x) ==
    LET q == (100 * x.n) \div x.d
        r == (100 * x.n) % x.d
        up == \/ 2 * r > x.d
              \/ 2 * r = x.d /\ q % 2 = 1
    IN  Rat(IF up THEN q + 1 ELSE q, 100)

(***************************************************************************)
(* Run parameters.                                                         *)
(***************************************************************************)
endVoltage(v) == IF v = "2S" THEN Rat(58, 10) ELSE Rat(27, 10)

\* The relays of the two loggers taken for one another.
LoadRelay_Swapped(v) == IF v = "2S" THEN 2 ELSE 1

\* The relay that switches the load: relay1 in the 2S logger, relay2 in the
\* cell logger.
LoadRelay(v) == IF v = "2S" THEN 1 ELSE 2

Relays == 1..4

\* Argument of sleep() in the loop body.
SleepSeconds(v) ==
    IF v = "2S" THEN Rat(logInterval, readingsToAverage) ELSE RInt(logInterval)

(***************************************************************************)
(* Values the sensors may return.                                          *)
(***************************************************************************)
\* Voltages read in the loop: one below endVoltage, one above it; their mean
\* is above it.
Voltages(v) ==
    {RAdd(endVoltage(v), o) : o \in {Rat(-1, 10), Rat(1, 5)}}

\* Voltages read at the start of the run: also endVoltage itself.
SeedVoltages(v) == Voltages(v) \cup {endVoltage(v)}

Currents == {RInt(790), RInt(810)}

\* Seconds the readings of one loop iteration may take: none, or 7/8 s
\* (8 readings then take 22 s instead of 15 s).
Latencies == {Zero, Rat(7, 8)}

(***************************************************************************)
(* Text handling of read_temp.  A line is a sequence of characters, a raw  *)
(* block (the result of readlines) a sequence of lines.  Python indexes    *)
(* from 0: lines[0] is lines[1] here, lines[1] is lines[2].                *)
(***************************************************************************)
IsSpace(c) == c \in {" ", "\n"}

RECURSIVE LStrip(_)
LStrip(s) ==
    IF Len(s) > 0 /\ IsSpace(s[1]) THEN LStrip(Tail(s)) ELSE s

RECURSIVE RStrip(_)
RStrip(s) ==
    IF Len(s) > 0 /\ IsSpace(s[Len(s)])
    THEN RStrip(SubSeq(s, 1, Len(s) - 1))
    ELSE s

\* str.strip()
Strip(s) == RStrip(LStrip(s))

\* s[-3:]
Last3(s) == SubSeq(s, IF Len(s) > 3 THEN Len(s) - 2 ELSE 1, Len(s))

\* s.find('t='): the 0-based index of the first occurrence, -1 when absent.
Find(s) ==
    LET hits == {i \in 1..(Len(s) - 1) : s[i] = "t" /\ s[i + 1] = "="}
    IN  IF hits = {} THEN -1
        ELSE (CHOOSE i \in hits : \A j \in hits : i <= j) - 1

\* s[k:] for a 0-based k >= 0
From(s, k) == SubSeq(s, k + 1, Len(s))

Digits == <<"0", "1", "2", "3", "4", "5", "6", "7", "8", "9">>

IsDigit(c) == \E i \in 1..10 : Digits[i] = c

DigitVal(c) == (CHOOSE i \in 1..10 : Digits[i] = c) - 1

RECURSIVE Decimal(_)
Decimal(s) ==
    IF Len(s) = 0 THEN 0
    ELSE 10 * Decimal(SubSeq(s, 1, Len(s) - 1)) + DigitVal(s[Len(s)])

\* The text float() reads after it has dropped surrounding white space and
\* a sign.
Unsigned(s) ==
    LET t == Strip(s)
    IN  IF Len(t) > 0 /\ t[1] \in {"-", "+"} THEN Tail(t) ELSE t

\* float(s) returns (signed decimal integers; any other text over the
\* characters used here makes float() raise ValueError).
IsFloat(s) ==
    /\ Len(Unsigned(s)) > 0
    /\ \A i \in 1..Len(Unsigned(s)) : IsDigit(Unsigned(s)[i])

FloatOf(s) ==
    LET t == Strip(s)
        m == Decimal(Unsigned(s))
    IN  RInt(IF t[1] = "-" THEN -m ELSE m)

Sentinel == RInt(-99)

\* The condition of read_temp's while loop holds: the first line is there
\* and does not end with YES.
NotYetValid(lines) ==
    /\ Len(lines) > 0
    /\ Last3(Strip(lines[1])) # <<"Y", "E", "S">>

\* What read_temp returns once the while loop is left with block `lines`.
read_temp_result(lines) ==
    IF Len(lines) < 1 THEN Sentinel
    ELSE IF Len(lines) < 2 THEN Sentinel
    ELSE LET equals_pos == Find(lines[2])
             temp_string == From(lines[2], equals_pos + 2)
         IN  IF equals_pos # -1
             THEN IF IsFloat(temp_string)
                  THEN RDiv(FloatOf(temp_string), RInt(1000))
                  ELSE Sentinel
             ELSE None

\* Raw blocks the w1_slave file may hold.
YesLine == <<"c", "r", "c", " ", "Y", "E", "S", "\n">>
NoLine == <<"c", "r", "c", " ", "N", "O", "\n">>
TempLine == <<"4", "b", " ", "t", "=", "2", "1", "0", "0", "0", "\n">>
NoMarkerLine == <<"4", "b", " ", "0", "1", "\n">>
NonNumericLine == <<"4", "b", " ", "t", "=", "b", "4", "\n">>

ValidBlock == <<YesLine, TempLine>>
NotReadyBlock == <<NoLine, TempLine>>
BlankFirstBlock == <<<<"\n">>, TempLine>>
EmptyBlock == <<>>
OneLineBlock == <<YesLine>>
NoMarkerBlock == <<YesLine, NoMarkerLine>>
NonNumericBlock == <<YesLine, NonNumericLine>>

MalformedBlocks == {EmptyBlock, OneLineBlock, NoMarkerBlock, NonNumericBlock}

Blocks == {ValidBlock, NotReadyBlock, BlankFirstBlock} \cup MalformedBlocks

(***************************************************************************)
(* State.                                                                  *)
(***************************************************************************)
VARIABLES
    variant,        \* which logger runs
    pc,             \* position of the script
    relay,          \* relay[i]: relay<i> is switched on
    volts, current, temperature,
    readCount, Vave, Aave, Tave,
    Vdat, Adat, Tdat,
    startTime,
    averageCurrent, totalReadings,
    totalHours, capacity,
    log,            \* lines written by logging.info, oldest first
    now,            \* the monotonic clock, in seconds
    lines,          \* read_temp: the raw block in hand
    caller,         \* read_temp: the statement that called it
    raised,         \* position at which an exception left the try body
    raw,            \* history: the raw (voltage, current) samples of the loop
    latency,        \* seconds the readings of an iteration take
    loopStart,      \* history: clock when the loop was entered
    loopEnd         \* history: clock when the loop was left normally

vars == <<variant, pc, relay, volts, current, temperature, readCount, Vave,
          Aave, Tave, Vdat, Adat, Tdat, startTime, averageCurrent,
          totalReadings, totalHours, capacity, log, now, lines, caller,
          raised, raw, latency, loopStart, loopEnd>>

accVars == <<readCount, Vave, Aave, Tave>>
datVars == <<Vdat, Adat, Tdat>>
recVars == <<volts, current, temperature>>
sumVars == <<averageCurrent, totalReadings, totalHours, capacity>>
tempVars == <<lines, caller>>
histVars == <<raw, latency, loopStart, loopEnd>>

LogLine(kind, a, b, c) == [kind |-> kind, a |-> a, b |-> b, c |-> c]

\* Statements of the loop body.
LoopBody ==
    {"sleep", "readV", "readA", "readT", "accumulate", "check", "logrec",
     "tally"}

\* Statements of the try body outside read_temp's own try block.
TryBody ==
    {"start", "logstart", "starttemp", "relayon", "while", "stats",
     "logtotal", "logcap"} \cup LoopBody

\* Statements that read a device: ina260.voltage, ina260.current and the
\* first read_temp_raw() of read_temp.
DeviceReads == {"start", "readV", "readA", "starttemp", "readT"}

Init ==
    /\ variant \in Variants
    /\ pc = "start"
    /\ relay = [i \in Relays |-> FALSE]
    /\ volts = None /\ current = None
    /\ temperature = IF variant = "2S" THEN Zero ELSE None
    /\ readCount = 0 /\ Vave = None /\ Aave = None /\ Tave = None
    /\ Vdat = None /\ Adat = None /\ Tdat = None
    /\ startTime = None
    /\ averageCurrent = Zero /\ totalReadings = 0
    /\ totalHours = None /\ capacity = None
    /\ log = <<>>
    /\ now = Zero
    /\ lines = <<>> /\ caller = "none"
    /\ raised = "none"
    /\ raw = <<>>
    /\ latency \in Latencies
    /\ loopStart = None /\ loopEnd = None

(***************************************************************************)
(* Start of the run.                                                       *)
(***************************************************************************)
\* volts = ina260.voltage
ReadSeedVoltage ==
    /\ pc = "start"
    /\ \E v \in SeedVoltages(variant) : volts' = v
    /\ pc' = "logstart"
    /\ UNCHANGED <<variant, relay, current, temperature, accVars, datVars,
                   startTime, sumVars, log, now, tempVars, raised, histVars>>

\* logging.info(msg); print(msg)
LogStart ==
    /\ pc = "logstart"
    /\ log' = Append(log, LogLine("start", volts, endVoltage(variant), None))
    /\ pc' = IF variant = "2S" THEN "starttemp" ELSE "relayon"
    /\ UNCHANGED <<variant, relay, recVars, accVars, datVars, startTime,
                   sumVars, now, tempVars, raised, histVars>>

\* The load is left off before the loop.
RelayOn_Skipped ==
    /\ pc = "relayon"
    /\ IF variant = "2S"
       THEN /\ readCount' = 0
            /\ Vave' = Zero /\ Aave' = Zero /\ Tave' = Zero
            /\ startTime' = now
       ELSE UNCHANGED <<accVars, startTime>>
    /\ loopStart' = now
    /\ pc' = "while"
    /\ UNCHANGED <<variant, relay, recVars, datVars, sumVars, log, now,
                   tempVars, raised, raw, latency, loopEnd>>

\* relay1.on() and the initialisation of the accumulator (2S), relay2.on()
\* (cell).
RelayOn ==
    /\ pc = "relayon"
    /\ relay' = [relay EXCEPT ![LoadRelay(variant)] = TRUE]
    /\ IF variant = "2S"
       THEN /\ readCount' = 0
            /\ Vave' = Zero /\ Aave' = Zero /\ Tave' = Zero
            /\ startTime' = now
       ELSE UNCHANGED <<accVars, startTime>>
    /\ loopStart' = now
    /\ pc' = "while"
    /\ UNCHANGED <<variant, recVars, datVars, sumVars, log, now, tempVars,
                   raised, raw, latency, loopEnd>>

(***************************************************************************)
(* read_temp.                                                              *)
(***************************************************************************)
\* temperature = read_temp() / Tdat = read_temp(): the call and the first
\* lines = read_temp_raw()
CallReadTemp ==
    /\ pc \in {"starttemp", "readT"}
    /\ \E b \in Blocks : lines' = b
    /\ caller' = pc
    /\ pc' = "rt_while"
    /\ UNCHANGED <<variant, relay, recVars, accVars, datVars, startTime,
                   sumVars, log, now, raised, histVars>>

\* The value read_temp returns goes to the caller's variable.
ReturnTemp(value) ==
    /\ IF caller = "starttemp"
       THEN /\ temperature' = value
            /\ pc' = "relayon"
            /\ UNCHANGED Tdat
       ELSE /\ Tdat' = value
            /\ pc' = "accumulate"
            /\ UNCHANGED temperature
    /\ lines' = <<>>
    /\ caller' = "none"
    /\ UNCHANGED <<variant, relay, volts, current, accVars, Vdat, Adat,
                   startTime, sumVars, log, now, raised, histVars>>

\* One turn of the while loop: sleep(0.2); lines = read_temp_raw()
RetryReadTemp ==
    /\ pc = "rt_while"
    /\ NotYetValid(lines)
    /\ \E b \in Blocks : lines' = b
    /\ UNCHANGED <<variant, pc, relay, recVars, accVars, datVars, startTime,
                   sumVars, log, now, caller, raised, histVars>>

\* The block is parsed whether or not its first line ends with YES.
ParseTemp_Unchecked ==
    /\ pc = "rt_while"
    /\ ReturnTemp(read_temp_result(lines))

\* The while loop is left (or its condition raises IndexError) and the
\* block is parsed.
ParseTemp ==
    /\ pc = "rt_while"
    /\ ~NotYetValid(lines)
    /\ ReturnTemp(read_temp_result(lines))

\* Anything raised inside read_temp's try block, KeyboardInterrupt
\* included, is caught by the bare except.
ReadTempExcept ==
    /\ pc = "rt_while"
    /\ ReturnTemp(Sentinel)

(***************************************************************************)
(* The monitor loop.                                                       *)
(***************************************************************************)
\* The condition written with >= in place of >.
WhileEnter_Ge ==
    /\ pc = "while"
    /\ ~RGt(endVoltage(variant), volts)
    /\ Len(raw) < MaxSamples
    /\ pc' = "sleep"
    /\ UNCHANGED <<variant, relay, recVars, accVars, datVars, startTime,
                   sumVars, log, now, tempVars, raised, histVars>>

\* while volts > endVoltage: the condition holds
WhileEnter ==
    /\ pc = "while"
    /\ RGt(volts, endVoltage(variant))
    /\ Len(raw) < MaxSamples
    /\ pc' = "sleep"
    /\ UNCHANGED <<variant, relay, recVars, accVars, datVars, startTime,
                   sumVars, log, now, tempVars, raised, histVars>>

\* while volts > endVoltage: the condition fails
WhileExit ==
    /\ pc = "while"
    /\ ~RGt(volts, endVoltage(variant))
    /\ pc' = "stats"
    /\ loopEnd' = now
    /\ UNCHANGED <<variant, relay, recVars, accVars, datVars, startTime,
                   sumVars, log, now, tempVars, raised, raw, latency,
                   loopStart>>

\* sleep(logInterval/readingsToAverage) (2S), sleep(logInterval) (cell)
Sleep ==
    /\ pc = "sleep"
    /\ now' = RAdd(now, SleepSeconds(variant))
    /\ pc' = "readV"
    /\ UNCHANGED <<variant, relay, recVars, accVars, datVars, startTime,
                   sumVars, log, tempVars, raised, histVars>>

\* Vdat = ina260.voltage (2S), volts = ina260.voltage (cell); the read
\* takes some time.
ReadVoltage ==
    /\ pc = "readV"
    /\ \E v \in Voltages(variant) :
          IF variant = "2S"
          THEN Vdat' = v /\ UNCHANGED volts
          ELSE volts' = v /\ UNCHANGED Vdat
    /\ now' = RAdd(now, latency)
    /\ pc' = "readA"
    /\ UNCHANGED <<variant, relay, current, temperature, accVars, Adat, Tdat,
                   startTime, sumVars, log, tempVars, raised, histVars>>

\* Adat = ina260.current (2S), current = ina260.current (cell)
ReadCurrent ==
    /\ pc = "readA"
    /\ \E a \in Currents :
          /\ IF variant = "2S"
             THEN Adat' = a /\ UNCHANGED current
             ELSE current' = a /\ UNCHANGED Adat
          /\ raw' = Append(raw, [v |-> IF variant = "2S" THEN Vdat ELSE volts,
                                 a |-> a])
    /\ pc' = IF variant = "2S" THEN "readT" ELSE "logrec"
    /\ UNCHANGED <<variant, relay, volts, temperature, accVars, Vdat, Tdat,
                   startTime, sumVars, log, now, tempVars, raised, latency,
                   loopStart, loopEnd>>

\* Vave = Vave + Vdat; Aave = Aave + Adat; Tave = Tave + Tdat;
\* readCount = readCount + 1.  Adding None to a number raises TypeError.
Accumulate ==
    /\ pc = "accumulate"
    /\ Vave' = RAdd(Vave, Vdat)
    /\ Aave' = RAdd(Aave, Adat)
    /\ IF Tdat = None
       THEN /\ raised' = pc
            /\ pc' = "finally"
            /\ UNCHANGED <<Tave, readCount>>
       ELSE /\ Tave' = RAdd(Tave, Tdat)
            /\ readCount' = readCount + 1
            /\ pc' = "check"
            /\ UNCHANGED raised
    /\ UNCHANGED <<variant, relay, recVars, datVars, startTime, sumVars, log,
                   now, tempVars, histVars>>

\* The loop-guard value follows every raw sample.
Check_PerSample ==
    /\ pc = "check"
    /\ IF readCount >= readingsToAverage
       THEN /\ volts' = RDiv(Vave, RInt(readingsToAverage))
            /\ current' = RDiv(Aave, RInt(readingsToAverage))
            /\ temperature' = RDiv(Tave, RInt(readingsToAverage))
            /\ readCount' = 0
            /\ Vave' = Zero /\ Aave' = Zero /\ Tave' = Zero
            /\ pc' = "logrec"
       ELSE /\ volts' = Vdat
            /\ pc' = "while"
            /\ UNCHANGED <<current, temperature, accVars>>
    /\ UNCHANGED <<variant, relay, datVars, startTime, sumVars, log, now,
                   tempVars, raised, histVars>>

\* The sample count is not reset when a record is made.
Check_KeepCount ==
    /\ pc = "check"
    /\ IF readCount >= readingsToAverage
       THEN /\ volts' = RDiv(Vave, RInt(readingsToAverage))
            /\ current' = RDiv(Aave, RInt(readingsToAverage))
            /\ temperature' = RDiv(Tave, RInt(readingsToAverage))
            /\ Vave' = Zero /\ Aave' = Zero /\ Tave' = Zero
            /\ UNCHANGED readCount
            /\ pc' = "logrec"
       ELSE /\ pc' = "while"
            /\ UNCHANGED <<recVars, accVars>>
    /\ UNCHANGED <<variant, relay, datVars, startTime, sumVars, log, now,
                   tempVars, raised, histVars>>

\* The comparison written with > in place of >=.
Check_Gt ==
    /\ pc = "check"
    /\ IF readCount > readingsToAverage
       THEN /\ volts' = RDiv(Vave, RInt(readingsToAverage))
            /\ current' = RDiv(Aave, RInt(readingsToAverage))
            /\ temperature' = RDiv(Tave, RInt(readingsToAverage))
            /\ readCount' = 0
            /\ Vave' = Zero /\ Aave' = Zero /\ Tave' = Zero
            /\ pc' = "logrec"
       ELSE /\ pc' = "while"
            /\ UNCHANGED <<recVars, accVars>>
    /\ UNCHANGED <<variant, relay, datVars, startTime, sumVars, log, now,
                   tempVars, raised, histVars>>

\* The running sums are not reset when a record is made.
Check_KeepSums ==
    /\ pc = "check"
    /\ IF readCount >= readingsToAverage
       THEN /\ volts' = RDiv(Vave, RInt(readingsToAverage))
            /\ current' = RDiv(Aave, RInt(readingsToAverage))
            /\ temperature' = RDiv(Tave, RInt(readingsToAverage))
            /\ readCount' = 0
            /\ UNCHANGED <<Vave, Aave, Tave>>
            /\ pc' = "logrec"
       ELSE /\ pc' = "while"
            /\ UNCHANGED <<recVars, accVars>>
    /\ UNCHANGED <<variant, relay, datVars, startTime, sumVars, log, now,
                   tempVars, raised, histVars>>

\* if readCount >= readingsToAverage: the means are taken and the
\* accumulator is reset.
Check ==
    /\ pc = "check"
    /\ IF readCount >= readingsToAverage
       THEN /\ volts' = RDiv(Vave, RInt(readingsToAverage))
            /\ current' = RDiv(Aave, RInt(readingsToAverage))
            /\ temperature' = RDiv(Tave, RInt(readingsToAverage))
            /\ readCount' = 0
            /\ Vave' = Zero /\ Aave' = Zero /\ Tave' = Zero
            /\ pc' = "logrec"
       ELSE /\ pc' = "while"
            /\ UNCHANGED <<recVars, accVars>>
    /\ UNCHANGED <<variant, relay, datVars, startTime, sumVars, log, now,
                   tempVars, raised, histVars>>

\* logging.info(f"{volts},{current},{temperature}") (2S),
\* logging.info(f"{volts},{current}") (cell)
LogRecord ==
    /\ pc = "logrec"
    /\ log' = Append(log, LogLine("data", volts, current,
                                  IF variant = "2S" THEN temperature ELSE None))
    /\ pc' = "tally"
    /\ UNCHANGED <<variant, relay, recVars, accVars, datVars, startTime,
                   sumVars, now, tempVars, raised, histVars>>

\* averageCurrent += current; totalReadings += 1
Tally ==
    /\ pc = "tally"
    /\ averageCurrent' = RAdd(averageCurrent, current)
    /\ totalReadings' = totalReadings + 1
    /\ pc' = "while"
    /\ UNCHANGED <<variant, relay, recVars, accVars, datVars, startTime,
                   totalHours, capacity, log, now, tempVars, raised, histVars>>

(***************************************************************************)
(* End of the run.                                                         *)
(***************************************************************************)
\* Total time of the run in hours: from the monotonic clock (2S), from the
\* number of log lines (cell).
TotalHours ==
    IF variant = "2S"
    THEN RDiv(RSub(now, startTime), RInt(3600))
    ELSE Rat(logInterval * totalReadings, 3600)

\* The division is made without looking at totalReadings.
FinalAverage_NoGuard == RDiv(averageCurrent, RInt(totalReadings))

\* The sum of the logged currents is left undivided.
FinalAverage_Sum == averageCurrent

\* The mean of the logged currents, when there is one to take.
FinalAverage ==
    IF totalReadings > 0
    THEN RDiv(averageCurrent, RInt(totalReadings))
    ELSE averageCurrent

\* The final statistics.
Stats ==
    /\ pc = "stats"
    /\ averageCurrent' = FinalAverage
    /\ totalHours' = TotalHours
    /\ capacity' = RMul(averageCurrent', totalHours')
    /\ pc' = "logtotal"
    /\ UNCHANGED <<variant, relay, recVars, accVars, datVars, startTime,
                   totalReadings, log, now, tempVars, raised, histVars>>

\* The total time line is not written.
LogTotal_Skipped ==
    /\ pc = "logtotal"
    /\ pc' = "logcap"
    /\ UNCHANGED <<variant, relay, recVars, accVars, datVars, startTime,
                   sumVars, log, now, tempVars, raised, histVars>>

\* logging.info(f"\"Total time\",\"{totalHours:.2f} hours\"")
LogTotal ==
    /\ pc = "logtotal"
    /\ log' = Append(log, LogLine("total", Fmt2(totalHours), None, None))
    /\ pc' = "logcap"
    /\ UNCHANGED <<variant, relay, recVars, accVars, datVars, startTime,
                   sumVars, now, tempVars, raised, histVars>>

\* The capacity line is written over the last line of the log.
LogCapacity_Overwrites ==
    /\ pc = "logcap"
    /\ log' = [log EXCEPT ![Len(log)] =
                  LogLine("capacity", Fmt2(capacity), None, None)]
    /\ pc' = "finally"
    /\ UNCHANGED <<variant, relay, recVars, accVars, datVars, startTime,
                   sumVars, now, tempVars, raised, histVars>>

\* logging.info(f"\"Capacity\",\"{capacity:.2f} mAH\"") and the final print
LogCapacity ==
    /\ pc = "logcap"
    /\ log' = Append(log, LogLine("capacity", Fmt2(capacity), None, None))
    /\ pc' = "finally"
    /\ UNCHANGED <<variant, relay, recVars, accVars, datVars, startTime,
                   sumVars, now, tempVars, raised, histVars>>

\* finally: relay1.off(); relay2.off(); relay3.off(); relay4.off()
AllPowerOff ==
    /\ pc = "finally"
    /\ relay' = [i \in Relays |-> FALSE]
    /\ pc' = "done"
    /\ UNCHANGED <<variant, recVars, accVars, datVars, startTime, sumVars,
                   log, now, tempVars, raised, histVars>>

\* The exception ends the process at once, the finally block does not run.
Raise_NoFinally ==
    /\ raised' = pc
    /\ pc' = "done"
    /\ UNCHANGED <<variant, relay, recVars, accVars, datVars, startTime,
                   sumVars, log, now, tempVars, histVars>>

\* An exception leaves the try body: control goes to the finally block.
Raise ==
    /\ raised' = pc
    /\ pc' = "finally"
    /\ UNCHANGED <<variant, relay, recVars, accVars, datVars, startTime,
                   sumVars, log, now, tempVars, histVars>>

\* A failing read in the loop body is caught there and the loop goes on.
SensorFault_Swallowed ==
    /\ pc \in DeviceReads
    /\ raised' = pc
    /\ pc' = IF pc \in LoopBody THEN "while" ELSE "finally"
    /\ UNCHANGED <<variant, relay, recVars, accVars, datVars, startTime,
                   sumVars, log, now, tempVars, histVars>>

\* A device read fails.
SensorFault ==
    /\ pc \in DeviceReads
    /\ Raise

\* The process is interrupted (KeyboardInterrupt) outside read_temp's try
\* block.
KeyboardInterrupt ==
    /\ pc \in TryBody
    /\ Raise

Next ==
    \/ ReadSeedVoltage
    \/ LogStart
    \/ RelayOn
    \/ CallReadTemp
    \/ RetryReadTemp
    \/ ParseTemp
    \/ ReadTempExcept
    \/ WhileEnter
    \/ WhileExit
    \/ Sleep
    \/ ReadVoltage
    \/ ReadCurrent
    \/ Accumulate
    \/ Check
    \/ LogRecord
    \/ Tally
    \/ Stats
    \/ LogTotal
    \/ LogCapacity
    \/ AllPowerOff
    \/ SensorFault
    \/ KeyboardInterrupt

Spec == Init /\ [][Next]_vars

\* read_temp's while loop is left: its condition is false and control goes
\* on to the statement after the call.
LeaveWhile ==
    /\ pc = "rt_while"
    /\ ~NotYetValid(lines)
    /\ pc' \in {"relayon", "accumulate"}

\* The script is sequential and the interpreter keeps running it: standing
\* at a while condition that is false, it goes on.
FairSpec == Spec /\ WF_pc(LeaveWhile)

(***************************************************************************)
(* Notions the properties below are stated with.                           *)
(***************************************************************************)
IsData(l) == l.kind = "data"
IsTotal(l) == l.kind = "total"
IsCapacity(l) == l.kind = "capacity"

\* The data records of the log, oldest first.
DataRecords == SelectSeq(log, IsData)
NumData == Len(DataRecords)

AllRelaysOff == \A i \in Relays : ~relay[i]

NumTotal == Len(SelectSeq(log, IsTotal))
NumCapacity == Len(SelectSeq(log, IsCapacity))

\* The seed voltage, as the start message shows it.
SeedVolts == IF Len(log) > 0 THEN log[1].a ELSE volts

\* The loop body is being executed and its record, if any, is not yet
\* written.
InIteration ==
    \/ pc \in {"sleep", "readV", "readA", "readT", "accumulate", "check",
               "logrec"}
    \/ pc = "rt_while" /\ caller = "readT"

\* The loop was left because its condition failed.
LoopLeftNormally == loopEnd # None

\* The final statistics have been computed.
StatsDone == totalHours # None

RECURSIVE SumV(_, _, _)
SumV(s, i, j) == IF i > j THEN Zero ELSE RAdd(s[i].v, SumV(s, i + 1, j))

RECURSIVE SumA(_, _, _)
SumA(s, i, j) == IF i > j THEN Zero ELSE RAdd(s[i].a, SumA(s, i + 1, j))

RECURSIVE SumRecordCurrents(_, _)
SumRecordCurrents(recs, k) ==
    IF k = 0 THEN Zero ELSE RAdd(recs[k].b, SumRecordCurrents(recs, k - 1))

(***************************************************************************)
(* C1: in both loggers, whenever the process has ended - after a normal    *)
(* end of the loop, after a fault in the loop body or after an interrupt - *)
(* all four relays are switched off.                                       *)
(***************************************************************************)
C1_RelaysOffAtExit == pc = "done" => AllRelaysOff

\* A run that ended by an exception raised in the loop body while the load
\* relay was on.
C1_Witness ==
    /\ pc = "done"
    /\ raised \in LoopBody
    /\ AllRelaysOff

(***************************************************************************)
(* C2: the loop stops at the first record whose voltage is at or below     *)
(* endVoltage: every record but the last is above endVoltage, an iteration *)
(* runs only while the most recent record (the seed before the first) is   *)
(* above endVoltage, the loop is left normally only when it is at or below *)
(* endVoltage, and a seed at or below endVoltage means no iteration at     *)
(* all.                                                                    *)
(***************************************************************************)
C2_LoopStopsAtThreshold ==
    LET recs == DataRecords
        last == IF Len(recs) > 0 THEN recs[Len(recs)].a ELSE SeedVolts
    IN  /\ \A k \in 1..(Len(recs) - 1) :
              RGt(recs[k].a, endVoltage(variant))
        /\ InIteration => RGt(last, endVoltage(variant))
        /\ LoopLeftNormally => RLe(last, endVoltage(variant))
        /\ (Len(log) > 0 /\ RLe(SeedVolts, endVoltage(variant)))
              => (raw = <<>> /\ Len(recs) = 0 /\ ~InIteration)

\* A run that logged a record above endVoltage, then one at or below it,
\* and left the loop.
C2_Witness ==
    /\ LoopLeftNormally
    /\ NumData >= 2
    /\ RGt(DataRecords[1].a, endVoltage(variant))
    /\ RLe(DataRecords[NumData].a, endVoltage(variant))

(***************************************************************************)
(* C3 as stated: whether the loop ended because its condition failed or    *)
(* because an exception left the loop body, the finished run has written   *)
(* the summary exactly once.                                               *)
(***************************************************************************)
C3_SummaryAtEveryExit ==
    (pc = "done" /\ (raised = "none" \/ raised \in LoopBody))
        => (NumTotal = 1 /\ NumCapacity = 1)

(***************************************************************************)
(* C3 amended: the summary is written at most once; a run that ends        *)
(* without an exception has written it exactly once, as its last two       *)
(* lines, from the computed total time and capacity; a run ended by an     *)
(* exception out of the loop body has written no summary.                  *)
(***************************************************************************)
C3_SummaryOnceAtNormalExit ==
    LET nt == NumTotal
        nc == NumCapacity
    IN  /\ nt <= 1 /\ nc <= 1
        /\ (pc = "done" /\ raised = "none")
              => /\ nt = 1 /\ nc = 1
                 /\ log[Len(log) - 1] =
                       LogLine("total", Fmt2(totalHours), None, None)
                 /\ log[Len(log)] =
                       LogLine("capacity", Fmt2(capacity), None, None)
                 /\ capacity = RMul(averageCurrent, totalHours)
        /\ raised \in LoopBody => (nt = 0 /\ nc = 0)

\* A finished run with records and its summary.
C3_Witness ==
    /\ pc = "done"
    /\ raised = "none"
    /\ NumData >= 1
    /\ NumTotal = 1 /\ NumCapacity = 1

(***************************************************************************)
(* C4: in the 2S logger the k-th record holds the arithmetic means of the  *)
(* voltages and of the currents of raw samples (k-1)*readingsToAverage+1   *)
(* .. k*readingsToAverage; once a record is written all samples taken so   *)
(* far are in exactly one record.                                          *)
(***************************************************************************)
C4_RecordsAreWindowMeans ==
    variant = "2S" =>
        LET recs == DataRecords
        IN  /\ \A k \in 1..Len(recs) :
                  /\ Len(raw) >= k * readingsToAverage
                  /\ recs[k].a =
                        RDiv(SumV(raw, (k - 1) * readingsToAverage + 1,
                                  k * readingsToAverage),
                             RInt(readingsToAverage))
                  /\ recs[k].b =
                        RDiv(SumA(raw, (k - 1) * readingsToAverage + 1,
                                  k * readingsToAverage),
                             RInt(readingsToAverage))
            /\ pc = "tally" => Len(raw) = Len(recs) * readingsToAverage

\* Two records written from different windows.
C4_Witness ==
    /\ variant = "2S"
    /\ NumData >= 2
    /\ DataRecords[1].a # DataRecords[2].a
    /\ DataRecords[1].b # DataRecords[2].b

(***************************************************************************)
(* C5: whenever read_temp leaves its while loop with a malformed raw block *)
(* in hand (no line, no second line, no 't=' in the second line, no number *)
(* after 't='), the value it hands to its caller is -99.                   *)
(***************************************************************************)
C5_MalformedYieldsSentinel ==
    [][(pc = "rt_while" /\ lines \in MalformedBlocks /\ pc' # "rt_while")
          => (IF caller = "starttemp" THEN temperature' ELSE Tdat') = Sentinel]_vars

(***************************************************************************)
(* C6: in both loggers, once the final statistics are computed, capacity   *)
(* is averageCurrent times totalHours and totalHours is the time on the    *)
(* clock between the start and the end of the loop, in hours.              *)
(***************************************************************************)
C6_CapacityFromWallClock ==
    StatsDone =>
        /\ capacity = RMul(averageCurrent, totalHours)
        /\ totalHours = RDiv(RSub(loopEnd, loopStart), RInt(3600))

(***************************************************************************)
(* C7: once an exception has left the loop body nothing more is written to *)
(* the log, the log holds no summary line, and the process ends with all   *)
(* relays off.                                                             *)
(***************************************************************************)
C7_FaultPropagates ==
    /\ [](raised \in LoopBody =>
             /\ NumTotal = 0 /\ NumCapacity = 0
             /\ pc \in {"finally", "done"}
             /\ pc = "done" => AllRelaysOff)
    /\ [][(raised \in LoopBody) => (log' = log)]_vars

\* A run ended by a failing ina260 read after a record was logged.
C7_Witness ==
    /\ pc = "done"
    /\ raised \in {"readV", "readA"}
    /\ NumData >= 1
    /\ NumTotal = 0 /\ NumCapacity = 0

(***************************************************************************)
(* C8: in a run whose loop body never ran, the final statistics give an    *)
(* average current of 0 and a capacity of 0, and the capacity line of the  *)
(* log shows 0.                                                            *)
(***************************************************************************)
C8_ZeroRecordSummary ==
    (StatsDone /\ raw = <<>>) =>
        /\ totalReadings = 0
        /\ averageCurrent = Zero
        /\ capacity = Zero
        /\ \A i \in 1..Len(log) : IsCapacity(log[i]) => log[i].a = Zero

\* A finished run without a record and with its summary written.
C8_Witness ==
    /\ pc = "done"
    /\ raised = "none"
    /\ raw = <<>>
    /\ NumData = 0
    /\ NumCapacity = 1

(***************************************************************************)
(* C9: once the final statistics of a run with N >= 1 records are          *)
(* computed, averageCurrent is the sum of the currents of the N records    *)
(* divided by N, and totalReadings is N.                                   *)
(***************************************************************************)
C9_AverageOfRecords ==
    LET recs == DataRecords
        N == Len(recs)
    IN  (StatsDone /\ N >= 1) =>
            /\ totalReadings = N
            /\ averageCurrent = RDiv(SumRecordCurrents(recs, N), RInt(N))

\* A finished run with two records of different currents.
C9_Witness ==
    /\ pc = "done"
    /\ raised = "none"
    /\ NumData = 2
    /\ DataRecords[1].b # DataRecords[2].b
    /\ averageCurrent # DataRecords[1].b

(***************************************************************************)
(* C10: in the 2S logger readCount never exceeds readingsToAverage, and    *)
(* right after a record is written readCount is 0 and the running sums     *)
(* Vave, Aave, Tave are 0.                                                 *)
(***************************************************************************)
C10_AccumulatorBounded ==
    variant = "2S" =>
        /\ readCount <= readingsToAverage
        /\ pc = "tally" =>
              /\ readCount = 0
              /\ Vave = Zero /\ Aave = Zero /\ Tave = Zero

\* A record has just been written by the 2S logger.
C10_Witness ==
    /\ variant = "2S"
    /\ pc = "tally"
    /\ NumData >= 1
    /\ readCount = 0

(***************************************************************************)
(* C11: in every state at most one relay is on, and a relay that is on is  *)
(* relay1 in the 2S logger and relay2 in the cell logger; relay3, relay4   *)
(* and the other logger's load relay are never on.                         *)
(***************************************************************************)
C11_OnlyLoadRelayOn ==
    /\ Cardinality({i \in Relays : relay[i]}) <= 1
    /\ \A i \in Relays :
          relay[i] => \/ variant = "2S" /\ i = 1
                      \/ variant = "cell" /\ i = 2

\* The cell logger is in its loop with relay2 on.
C11_Witness ==
    /\ variant = "cell"
    /\ pc = "readA"
    /\ relay[2]
    /\ ~relay[1] /\ ~relay[3] /\ ~relay[4]

(***************************************************************************)
(* C12: read_temp's retry loop has no bound.  While the block in hand has  *)
(* a first line that does not end with YES, read_temp stays in its loop -  *)
(* the log, the relays, the loop-guard value and the tally do not change - *)
(* and nothing but an exception caught by its bare except (giving -99)     *)
(* takes it out; once the block in hand is valid, read_temp returns.       *)
(***************************************************************************)
C12_RetryUntilValid ==
    /\ [][(pc = "rt_while" /\ NotYetValid(lines))
             => /\ \/ pc' = "rt_while"
                   \/ (IF caller = "starttemp" THEN temperature' ELSE Tdat')
                         = Sentinel
                /\ UNCHANGED <<relay, log, volts, averageCurrent,
                               totalReadings, raised>>]_vars
    /\ (pc = "rt_while" /\ ~NotYetValid(lines)) ~> (pc # "rt_while")

\* read_temp, called from the loop with the load on, holds a block that is
\* not valid yet.
C12_Witness ==
    /\ pc = "rt_while"
    /\ caller = "readT"
    /\ NotYetValid(lines)
    /\ relay[LoadRelay(variant)]

(***************************************************************************)
(* C13: the log is append-only and ordered.  Every step leaves the lines   *)
(* already written in place and unchanged.  The first line, and only the   *)
(* first, is the start message; the k-th data record is line k + 1 and     *)
(* holds the values of the k-th window of samples; a 'Total time' line     *)
(* comes after every data record, a 'Capacity' line directly after the     *)
(* 'Total time' line and is the last line.  When a run has ended normally  *)
(* the log is the start message, the N = totalReadings data records,       *)
(* 'Total time' and 'Capacity'.                                            *)
(***************************************************************************)
C13_LogAppendOnlyOrdered ==
    /\ [][/\ Len(log') >= Len(log)
          /\ SubSeq(log', 1, Len(log)) = log]_vars
    /\ [](LET recs == DataRecords
              W == IF variant = "2S" THEN readingsToAverage ELSE 1
          IN  /\ \A i \in 1..Len(log) :
                    /\ (log[i].kind = "start") <=> (i = 1)
                    /\ IsData(log[i]) => i <= Len(recs) + 1
                    /\ IsTotal(log[i]) => i = Len(recs) + 2
                    /\ IsCapacity(log[i]) => i = Len(recs) + 3 /\ i = Len(log)
              /\ \A k \in 1..Len(recs) :
                    /\ Len(raw) >= k * W
                    /\ recs[k].a =
                          RDiv(SumV(raw, (k - 1) * W + 1, k * W), RInt(W))
                    /\ recs[k].b =
                          RDiv(SumA(raw, (k - 1) * W + 1, k * W), RInt(W))
              /\ (pc = "done" /\ raised = "none") =>
                    /\ Len(recs) = totalReadings
                    /\ Len(log) = Len(recs) + 3
                    /\ IsTotal(log[Len(log) - 1])
                    /\ IsCapacity(log[Len(log)]))

\* A run that ended normally with two data records whose windows differ.
C13_Witness ==
    /\ pc = "done"
    /\ raised = "none"
    /\ NumData = 2
    /\ DataRecords[1] # DataRecords[2]
    /\ IsCapacity(log[Len(log)])

(***************************************************************************)
(* C14: in the 2S logger the steps of a loop iteration that does not       *)
(* complete a window - the sleep, the three readings, the additions and    *)
(* the failing test of readCount - leave volts, averageCurrent,            *)
(* totalReadings and the log unchanged.  So with a window under way the    *)
(* loop condition still holds whatever the raw samples were, and a loop    *)
(* that was left normally after some sample was left on a window whose     *)
(* mean is at or below endVoltage.                                         *)
(***************************************************************************)
C14_PartialWindowFrame ==
    /\ [][(/\ variant = "2S"
           /\ InIteration
           /\ pc # "logrec"
           /\ ~(pc = "check" /\ readCount >= readingsToAverage))
             => UNCHANGED <<volts, averageCurrent, totalReadings, log>>]_vars
    /\ []((variant = "2S" /\ pc = "while" /\ readCount > 0)
             => /\ readCount < readingsToAverage
                /\ RGt(volts, endVoltage(variant)))
    /\ []((variant = "2S" /\ LoopLeftNormally /\ Len(raw) > 0)
             => /\ Len(raw) % readingsToAverage = 0
                /\ RLe(RDiv(SumV(raw, Len(raw) - readingsToAverage + 1,
                                 Len(raw)),
                            RInt(readingsToAverage)),
                       endVoltage(variant)))

\* The 2S logger goes into another iteration after a raw sample at or below
\* endVoltage that did not complete its window.
C14_Witness ==
    /\ variant = "2S"
    /\ pc = "sleep"
    /\ readCount > 0
    /\ RLe(raw[Len(raw)].v, endVoltage(variant))

(***************************************************************************)
(* C15: every sample of the loop is taken with the load relay on.  The     *)
(* load relay is off up to and including the seed voltage read, the start  *)
(* message and (2S) the starting temperature read; it is switched on by    *)
(* the statement before the loop and by no other; it is on at every        *)
(* statement of the loop and of the final statistics; it is switched off   *)
(* by the finally block and by nothing else.  A run that ends normally -   *)
(* one without any record included - has had the relay on and has it off   *)
(* at its end.                                                             *)
(***************************************************************************)
C15_LoadOnWhileSampling ==
    /\ [](LET on == relay[LoadRelay(variant)]
          IN  /\ (\/ pc \in LoopBody \cup {"while", "stats", "logtotal",
                                           "logcap"}
                  \/ pc = "rt_while" /\ caller = "readT") => on
              /\ (\/ pc \in {"start", "logstart", "starttemp", "relayon"}
                  \/ pc = "rt_while" /\ caller = "starttemp") => ~on
              /\ (pc = "done" /\ raised = "none")
                    => loopStart # None /\ ~on)
    /\ [][/\ (raw' # raw) => relay[LoadRelay(variant)]
          /\ (~relay[LoadRelay(variant)] /\ relay'[LoadRelay(variant)])
                => (pc = "relayon" /\ pc' = "while")
          /\ (relay[LoadRelay(variant)] /\ ~relay'[LoadRelay(variant)])
                => (pc = "finally" /\ pc' = "done")]_vars

\* A second sample has just been taken, with the load relay on.
C15_Witness ==
    /\ Len(raw) = 2
    /\ pc \in {"readT", "logrec"}
    /\ relay[LoadRelay(variant)]

(***************************************************************************)
(* C16: in the 2S logger, once the loop has been left because its          *)
(* condition failed, the accumulator is empty - readCount = 0 and          *)
(* Vave = Aave = Tave = 0 - and the number of raw samples taken is         *)
(* totalReadings * readingsToAverage: no partly filled window is dropped.  *)
(***************************************************************************)
C16_NoPartialWindowAtExit ==
    (variant = "2S" /\ LoopLeftNormally) =>
        /\ readCount = 0
        /\ Vave = Zero /\ Aave = Zero /\ Tave = Zero
        /\ Len(raw) = totalReadings * readingsToAverage

\* The 2S loop has just been left normally after at least one full window.
C16_Witness ==
    /\ variant = "2S"
    /\ LoopLeftNormally
    /\ pc = "stats"
    /\ totalReadings >= 1
    /\ Len(raw) >= readingsToAverage

====
